---- MODULE Spec2Model ----
(***************************************************************************)
(* State-machine model of src/scraper.py: the link store shared by all     *)
(* running instances (marketplace_links, properties, media), the link      *)
(* collection loop (collect_links) and the extraction run (process_links). *)
(* The store is taken to be transactional (InnoDB): each instance works    *)
(* on its own connection with autocommit off, so its writes are pending    *)
(* until db_conn.commit() and are discarded by db_conn.rollback() or by    *)
(* the connection being closed.                                            *)
(***************************************************************************)
EXTENDS Integers, Sequences, FiniteSets, TLC

\* ------------------------------------------------------------------ bounds
\* number of distinct marketplace items the feed can render
MaxItems == 3
\* rows claimed by one run; the source sets 100 (scraper.py:30), scaled down
\* so that a run can leave eligible rows behind
PROCESS_LIMIT == 2
\* length of the price texts tried
MaxPriceLen == 3
\* turns without new links before the cooldown: the 5 of line 227
STAGNATION_LIMIT == 5
\* the target of line 28, which the loop of line 213 never tests; the source
\* sets 5000, scaled down so that a loop that tested it would reach it
TARGET_LINKS_TO_COLLECT == 2

Procs == {"p1", "p2"}
Discoverers == {"d1"}
Items == 1 .. MaxItems

\* ------------------------------------------------------------------- text
\* A text is a sequence of characters, each a one-character string; the two
\* code points that follow a digit in a keycap emoji are the tokens below.
VS16 == "<FE0F>"
KEYCAP == "<20E3>"
NoText == <<"<none>">>

AsciiDigits == {"0", "1", "2", "3", "4", "5", "6", "7", "8", "9"}

DigitVal(c) ==
    CASE c = "0" -> 0 [] c = "1" -> 1 [] c = "2" -> 2 [] c = "3" -> 3
      [] c = "4" -> 4 [] c = "5" -> 5 [] c = "6" -> 6 [] c = "7" -> 7
      [] c = "8" -> 8 [] c = "9" -> 9

\* str.isdigit: the decimal digits and digit-like characters such as a
\* superscript two, which int() does not accept
IsDigitChar(c) == c \in AsciiDigits \cup {"^2"}

RECURSIVE FilterDigits(_)
FilterDigits(t) ==
    IF t = <<>> THEN <<>>
    ELSE IF IsDigitChar(Head(t)) THEN <<Head(t)>> \o FilterDigits(Tail(t))
         ELSE FilterDigits(Tail(t))

RECURSIVE IntOf(_)
IntOf(ds) ==
    IF ds = <<>> THEN 0
    ELSE 10 * IntOf(SubSeq(ds, 1, Len(ds) - 1)) + DigitVal(ds[Len(ds)])

\* price_digits = ''.join(filter(str.isdigit, price_text));
\* price = int(price_digits) if price_digits else 1.  -1 stands for the
\* ValueError int() raises on a digit-like character that is no decimal digit.
ParsePrice(price_text) ==
    LET price_digits == FilterDigits(price_text)
    IN IF price_digits = <<>> THEN 1
       ELSE IF \E k \in 1 .. Len(price_digits) : price_digits[k] \notin AsciiDigits
            THEN -1
            ELSE IntOf(price_digits)

\* text.replace(emoji, digit) for one keycap emoji: every non-overlapping
\* occurrence of <<digit, VS16, KEYCAP>>, left to right
RECURSIVE ReplaceEmoji(_, _)
ReplaceEmoji(t, d) ==
    IF t = <<>> THEN <<>>
    ELSE IF Len(t) >= 3 /\ t[1] = d /\ t[2] = VS16 /\ t[3] = KEYCAP
         THEN <<d>> \o ReplaceEmoji(SubSeq(t, 4, Len(t)), d)
         ELSE <<Head(t)>> \o ReplaceEmoji(Tail(t), d)

EmojiOrder == <<"0", "1", "2", "3", "4", "5", "6", "7", "8", "9">>

RECURSIVE ReplaceEmojis(_, _)
ReplaceEmojis(t, k) ==
    IF k > Len(EmojiOrder) THEN t
    ELSE ReplaceEmojis(ReplaceEmoji(t, EmojiOrder[k]), k + 1)

Whitespace == {" ", "\n", "\t"}
\* the separator classes of the pattern: [\s\.,-] at positions 1, 2 and 4,
\* [\s\.,"_] at position 3
SepClass(k) ==
    IF k = 3 THEN Whitespace \cup {".", ",", "\"", "_"}
    ELSE Whitespace \cup {".", ",", "-"}

\* the match of (\d{2}) groups k..4 starting at position j, each after an
\* optional separator of its class: the digits matched, or <<"fail">>
RECURSIVE MatchGroups(_, _, _)
MatchGroups(t, j, k) ==
    IF k > 4 THEN <<>>
    ELSE LET j2 == IF j <= Len(t) /\ t[j] \in SepClass(k) THEN j + 1 ELSE j
         IN IF j2 + 1 <= Len(t) /\ t[j2] \in AsciiDigits /\ t[j2 + 1] \in AsciiDigits
            THEN LET rest == MatchGroups(t, j2 + 2, k + 1)
                 IN IF rest = <<"fail">> THEN rest
                    ELSE <<t[j2], t[j2 + 1]>> \o rest
            ELSE <<"fail">>

MatchAt(t, i) ==
    IF i + 1 <= Len(t) /\ t[i] = "0" /\ t[i + 1] \in {"5", "6", "7"}
    THEN LET rest == MatchGroups(t, i + 2, 1)
         IN IF rest = <<"fail">> THEN rest ELSE <<t[i], t[i + 1]>> \o rest
    ELSE <<"fail">>

\* re.search: the match at the leftmost position that has one
RECURSIVE SearchFrom(_, _)
SearchFrom(t, i) ==
    IF i > Len(t) THEN NoText
    ELSE IF MatchAt(t, i) # <<"fail">> THEN MatchAt(t, i)
         ELSE SearchFrom(t, i + 1)

\* NoText stands for None
extract_phone_number(text) ==
    IF text = <<>> \/ text = NoText THEN NoText
    ELSE SearchFrom(ReplaceEmojis(text, 1), 1)

\* ------------------------------------------------------------ the store
VARIABLES
    links,                   \* marketplace_links, in id order: row k has id k
    props,                   \* the committed rows of properties
    media,                   \* the committed rows of media
    seen_item_ids,           \* collect_links: per discovery run
    new_links_in_batch,      \* collect_links: inserts of the current iteration
    collected_count_session, \* collect_links: inserts counted this session
    pc,                      \* process_links: where each instance stands
    links_to_process,        \* process_links: the rows fetched at line 378
    idx,                     \* process_links: position of the for loop
    final_status,            \* process_links: final_status of the current item
    stop,                    \* process_links: the break of line 469 is pending
    raised,                  \* process_links: the exception of the current item
    pending,                 \* uncommitted property/media writes per connection
    page_closed,             \* page.is_closed() of each instance's page
    page,                    \* what the page yielded for the current item
    collect_pc,              \* collect_links: where the loop of line 213 stands
    current_link_count,      \* collect_links: len(links) of this iteration
    last_link_count,         \* collect_links
    consecutive_scrolls_with_no_new_links,  \* collect_links
    pos,                     \* collect_links: position of the for loop, line 235
    cooldown,                \* collect_links: this iteration slept the 30 seconds
    no_growth_run,           \* iterations in a row whose count did not grow
    collect_page_closed,     \* the discovery run's page is closed
    report,                  \* main: what the run ended with
    price_input,             \* a price text handed to lines 410-411
    parsed_price,            \* the price of line 411
    phone_input,             \* a text handed to extract_phone_number
    extracted_phone          \* what extract_phone_number returned

vars == <<links, props, media, seen_item_ids, new_links_in_batch,
          collected_count_session, pc, links_to_process, idx, final_status,
          stop, raised, pending, page_closed, page, collect_pc,
          current_link_count, last_link_count,
          consecutive_scrolls_with_no_new_links, pos, cooldown, no_growth_run,
          collect_page_closed, report, price_input, parsed_price, phone_input,
          extracted_phone>>

scrollVars == <<collect_pc, current_link_count, last_link_count,
                consecutive_scrolls_with_no_new_links, pos, cooldown,
                no_growth_run, collect_page_closed, report>>
parseVars == <<price_input, parsed_price, phone_input, extracted_phone>>
otherVars == <<scrollVars, parseVars>>

collectVars == <<seen_item_ids, new_links_in_batch, collected_count_session>>
processVars == <<pc, links_to_process, idx, final_status, stop, raised, pending,
                 page_closed, page>>

\* owner of a row: "" once committed, else the connection whose uncommitted
\* INSERT wrote it
Committed == ""

NoWrites == [props |-> {}, media |-> {}]

\* the value of `page` when the current item's page did not yield all the
\* item needs, or there is no current item
NoPage == [price_text |-> NoText, description |-> NoText, urls |-> {}]

Range(s) == {s[k] : k \in 1 .. Len(s)}

\* a href rendered by the feed: "/marketplace/item/<item>/?<query>"; the
\* last item is rendered with either of two query strings
Hrefs == [item : Items, query : {""}] \cup {[item |-> MaxItems, query |-> "ref=feed"]}

\* item_id = href.split('/')[3].split('?')[0]
item_id_of(href) == href.item

\* full_url = "https://www.facebook.com" + href
full_url_of(href) == <<"https://www.facebook.com", href.item, href.query>>

RowsOf(item) == {k \in 1 .. Len(links) : links[k].fb_item_id = item}

\* REPLACE INTO marketplace_links: the row that has the identifier is written
\* anew
insert_replace(table, item, url, conn) ==
    IF \E k \in 1 .. Len(table) : table[k].fb_item_id = item
    THEN [k \in 1 .. Len(table) |->
            IF table[k].fb_item_id = item
            THEN [table[k] EXCEPT !.url = url, !.status = "new", !.processed_at = 0]
            ELSE table[k]]
    ELSE Append(table, [fb_item_id |-> item, url |-> url, status |-> "new",
                        processed_at |-> 0, owner |-> conn])

\* INSERT IGNORE INTO marketplace_links (fb_item_id, url): fb_item_id is the
\* UNIQUE KEY, so a row is added only when no row has the identifier
insert_ignore(table, item, url, conn) ==
    IF \E k \in 1 .. Len(table) : table[k].fb_item_id = item
    THEN table
    ELSE Append(table, [fb_item_id |-> item, url |-> url, status |-> "new",
                        processed_at |-> 0, owner |-> conn])

\* a turn of the loop without the commit of line 262
commit_nothing(table, conn) == table

commit_links(table, conn) ==
    [k \in 1 .. Len(table) |->
        IF table[k].owner = conn THEN [table[k] EXCEPT !.owner = Committed]
        ELSE table[k]]

\* line 391 with the status of the success path
initial_status_completed == "completed"

\* final_status = 'error', line 391
initial_final_status == "error"

\* lines 207-210 and the first turn of the loop of line 213
InitScroll ==
    /\ collect_pc = [d \in Discoverers |-> "scan"]
    /\ current_link_count = [d \in Discoverers |-> 0]
    /\ last_link_count = [d \in Discoverers |-> 0]
    /\ consecutive_scrolls_with_no_new_links = [d \in Discoverers |-> 0]
    /\ pos = [d \in Discoverers |-> 0]
    /\ cooldown = [d \in Discoverers |-> FALSE]
    /\ no_growth_run = [d \in Discoverers |-> 0]
    /\ collect_page_closed = [d \in Discoverers |-> FALSE]
    /\ report = [d \in Discoverers |-> "none"]

\* parsed_price before line 411 has run
Unparsed == 0 - 2

\* extracted_phone before extract_phone_number has returned
Unextracted == <<"<unset>">>

\* no text is being parsed
InitParse ==
    /\ price_input = NoText
    /\ parsed_price = Unparsed
    /\ phone_input = NoText
    /\ extracted_phone = Unextracted

\* the empty store and no run started
InitStore ==
    /\ links = <<>>
    /\ props = {}
    /\ media = {}
    /\ seen_item_ids = [d \in Discoverers |-> {}]
    /\ new_links_in_batch = [d \in Discoverers |-> 0]
    /\ collected_count_session = [d \in Discoverers |-> 0]
    /\ pc = [p \in Procs |-> "idle"]
    /\ links_to_process = [p \in Procs |-> <<>>]
    /\ idx = [p \in Procs |-> 0]
    /\ final_status = [p \in Procs |-> initial_final_status]
    /\ stop = [p \in Procs |-> FALSE]
    /\ raised = [p \in Procs |-> "none"]
    /\ pending = [p \in Procs |-> NoWrites]
    /\ page_closed = [p \in Procs |-> FALSE]
    /\ page = [p \in Procs |-> NoPage]

Init == InitStore /\ InitScroll /\ InitParse

\* ------------------------------------------------------- collect_links
\* lines 244-253 with the total advanced by every INSERT executed
submit_link_counting_attempts(d, href) ==
    LET item == item_id_of(href)
        after == insert_ignore(links, item, full_url_of(href), d)
        rowcount == Len(after) - Len(links)
    IN /\ seen_item_ids' = [seen_item_ids EXCEPT ![d] = @ \cup {item}]
       /\ links' = after
       /\ new_links_in_batch' = [new_links_in_batch EXCEPT ![d] = @ + rowcount]
       /\ collected_count_session' =
              [collected_count_session EXCEPT ![d] = @ + 1]

\* lines 244-253 for an identifier not seen in this run
submit_link(d, href) ==
    LET item == item_id_of(href)
        after == insert_ignore(links, item, full_url_of(href), d)
        rowcount == Len(after) - Len(links)
    IN /\ seen_item_ids' = [seen_item_ids EXCEPT ![d] = @ \cup {item}]
       /\ links' = after
       /\ new_links_in_batch' = [new_links_in_batch EXCEPT ![d] = @ + rowcount]
       /\ collected_count_session' =
              [collected_count_session EXCEPT ![d] = @ + rowcount]

\* lines 235-256, one element of links: the identifier is skipped when seen
\* in this run, else submitted; rowcount > 0 counts an actual insertion.
\* The feed renders its items in one order, so an element is reached after
\* the elements before it.
CollectLink(d, href) ==
    LET item == item_id_of(href)
    IN /\ item \notin seen_item_ids[d]
       /\ \A j \in Items : j < item => j \in seen_item_ids[d]
       /\ submit_link(d, href)
       /\ UNCHANGED <<props, media, processVars>>
       /\ UNCHANGED otherVars

\* lines 258-266 and 234: commit when the iteration inserted something, then
\* scroll; the next iteration starts its count at 0
CommitBatch(d) ==
    /\ new_links_in_batch[d] > 0
    /\ links' = commit_links(links, d)
    /\ new_links_in_batch' = [new_links_in_batch EXCEPT ![d] = 0]
    /\ UNCHANGED <<props, media, seen_item_ids, collected_count_session,
                   processVars>>
    /\ UNCHANGED otherVars

\* a new `collect` invocation after the previous one was stopped: main closes
\* the connection (lines 525-529), which discards what was not committed, and
\* the new run starts with the locals of lines 207-210
RestartCollect(d) ==
    /\ seen_item_ids[d] # {}
    /\ links' = SelectSeq(links, LAMBDA r : r.owner # d)
    /\ seen_item_ids' = [seen_item_ids EXCEPT ![d] = {}]
    /\ new_links_in_batch' = [new_links_in_batch EXCEPT ![d] = 0]
    /\ collected_count_session' = [collected_count_session EXCEPT ![d] = 0]
    /\ UNCHANGED <<props, media, processVars>>
    /\ UNCHANGED otherVars

\* ------------------------------------------------------- process_links
\* line 377 with WHERE status <> 'processing'
eligible_unless_processing(row) == row.owner = Committed /\ row.status # "processing"

\* WHERE status = 'new' OR status = 'error' (line 377), on committed rows
Eligible(row) == row.owner = Committed /\ row.status \in {"new", "error"}

RECURSIVE FirstN(_, _, _)
\* ORDER BY id ASC LIMIT n: the first n eligible ids from id k upwards
FirstN(table, k, n) ==
    IF n = 0 \/ k > Len(table) THEN <<>>
    ELSE IF Eligible(table[k]) THEN <<k>> \o FirstN(table, k + 1, n - 1)
         ELSE FirstN(table, k + 1, n)

RECURSIVE Reverse(_)
Reverse(q) == IF q = <<>> THEN <<>> ELSE Append(Reverse(Tail(q)), Head(q))

\* the SELECT of line 377 with ORDER BY id DESC
select_links_desc(table) == Reverse(FirstN(table, 1, PROCESS_LIMIT))

\* the SELECT of line 377 without LIMIT
select_all_links(table) == FirstN(table, 1, Len(table))

\* the rows the SELECT of line 377 returns
select_links(table) == FirstN(table, 1, PROCESS_LIMIT)

\* the rows a connection holds locked: those its SELECT ... FOR UPDATE
\* returned, until its commit of line 386
LockedBy(q) == IF pc[q] = "selected" THEN Range(links_to_process[q]) ELSE {}

\* the SELECT of line 377 without FOR UPDATE: nothing to wait for
select_without_lock(p, ids) == TRUE

\* FOR UPDATE: the statement waits while another transaction holds a lock on
\* a row it has to lock
for_update_free(p, ids) == \A q \in Procs \ {p} : LockedBy(q) \cap ids = {}

\* lines 376-386 with the rows marked by the statement that selects them
ClaimSelectMarking(p) ==
    LET rows == select_links(links)
    IN /\ pc[p] \in {"idle", "crashed"}
       /\ for_update_free(p, Range(rows))
       /\ links_to_process' = [links_to_process EXCEPT ![p] = rows]
       /\ links' = [k \in 1 .. Len(links) |->
                       IF k \in Range(rows)
                       THEN [links[k] EXCEPT !.status = "processing"]
                       ELSE links[k]]
       /\ pc' = [pc EXCEPT ![p] = IF rows = <<>> THEN "idle" ELSE "selected"]
       /\ UNCHANGED <<props, media, collectVars, idx, final_status, stop,
                      raised, pending, page_closed, page>>
       /\ UNCHANGED otherVars

\* lines 376-382 of a new `process` invocation: the SELECT, and the return
\* when it finds nothing
ClaimSelect(p) ==
    LET rows == select_links(links)
    IN /\ pc[p] \in {"idle", "crashed"}
       /\ for_update_free(p, Range(rows))
       /\ links_to_process' = [links_to_process EXCEPT ![p] = rows]
       /\ pc' = [pc EXCEPT ![p] = IF rows = <<>> THEN "idle" ELSE "selected"]
       /\ UNCHANGED <<links, props, media, collectVars, idx, final_status, stop,
                      raised, pending, page_closed, page>>
       /\ UNCHANGED otherVars

\* the UPDATE of line 385 without its WHERE clause
mark_all_processing(table, ids) ==
    [k \in 1 .. Len(table) |->
        IF table[k].owner = Committed THEN [table[k] EXCEPT !.status = "processing"]
        ELSE table[k]]

\* UPDATE marketplace_links SET status = 'processing' WHERE id IN (...)
mark_processing(table, ids) ==
    [k \in 1 .. Len(table) |->
        IF k \in ids THEN [table[k] EXCEPT !.status = "processing"]
        ELSE table[k]]

\* lines 384-387: the UPDATE and its commit
ClaimUpdate(p) ==
    /\ pc[p] = "selected"
    /\ links' = mark_processing(links, Range(links_to_process[p]))
    /\ pc' = [pc EXCEPT ![p] = "item"]
    /\ idx' = [idx EXCEPT ![p] = 1]
    /\ UNCHANGED <<props, media, collectVars, links_to_process, final_status,
                   stop, raised, pending, page_closed, page>>
    /\ UNCHANGED otherVars

\* ---------------------------------------------- what an item page yields
TimedOut == <<"<timeout>">>
TitleText == <<"F", "l", "a", "t", " ", "A">>
PriceDZD == <<"5", "0", "0", "0", "0", " ", "D", "Z", "D">>
PriceFree == <<"F", "R", "E", "E">>
PriceOdd == <<"5", "^2", " ", "D", "Z", "D">>
DescPhone == <<"0", VS16, KEYCAP, "6", VS16, KEYCAP, " ", "1", "2", " ", "3", "4",
               " ", "5", "6", " ", "7", "8">>
Unknown == <<"U", "n", "k", "n", "o", "w", "n">>
Alger == <<"A", "l", "g", "e", "r">>

\* src attributes: two on the asset host ('scontent' in src), one elsewhere
ScontentUrls == {"scontent/1.jpg", "scontent/2.jpg"}
OtherSrc == "static/x.png"

\* One observation is what the surface, the downloads and the store answer
\* while one item is processed.  closed_at = k > 0: the page is closed when
\* the k-th surface call (1 goto, 2 title, 3 price, 4 location, 5 description,
\* 6 image wait, 7 image list) is made.
PageA == [closed_at |-> 0, goto |-> "ok", title |-> "ok", price_text |-> PriceDZD,
          location |-> Alger, description |-> DescPhone, img_wait |-> "ok",
          srcs |-> <<"scontent/2.jpg", OtherSrc, "scontent/1.jpg", "scontent/2.jpg">>,
          failed |-> {}, db |-> "ok"]
PageB == [closed_at |-> 0, goto |-> "ok", title |-> "ok", price_text |-> PriceFree,
          location |-> TimedOut, description |-> TimedOut, img_wait |-> "ok",
          srcs |-> <<"scontent/1.jpg">>, failed |-> {}, db |-> "ok"]

\* the listing behind a link: every second item is the sparser page
PageOf(item) == IF item % 2 = 0 THEN PageB ELSE PageA

\* what can happen while the item is processed: everything answers, or one
\* of the calls fails
Observations(item) ==
    LET pg == PageOf(item)
    IN {pg}
       \cup {[pg EXCEPT !.closed_at = k] : k \in 1 .. 7}
       \cup {[pg EXCEPT !.goto = g] : g \in {"timeout", "error"}}
       \cup {[pg EXCEPT !.title = "timeout"], [pg EXCEPT !.price_text = TimedOut],
             [pg EXCEPT !.price_text = PriceOdd], [pg EXCEPT !.img_wait = "timeout"],
             [pg EXCEPT !.srcs = <<OtherSrc>>], [pg EXCEPT !.db = "error"]}
       \cup {[pg EXCEPT !.failed = f] : f \in (SUBSET ScontentUrls) \ {{}}}

\* the page yields a title, a price text and an asset URL, every download
\* succeeds and the surface stays open: nothing the item needs is missing
Yields(o) ==
    /\ o.closed_at = 0 /\ o.goto = "ok" /\ o.title = "ok" /\ o.img_wait = "ok"
    /\ o.price_text # TimedOut /\ ParsePrice(o.price_text) >= 0
    /\ Range(o.srcs) \cap ScontentUrls # {}
    /\ o.failed \cap Range(o.srcs) = {}
    /\ o.db = "ok"

\* ------------------------------------------------------ location lookup
\* line 425 calls get_location_ids(db_conn, location_text); scraper.py
\* defines get_commune_id (lines 56-77) and nothing named get_location_ids,
\* so the call raises NameError
get_location_ids(location_text) ==
    [exc |-> "NameError", commune_id |-> 0, willaya_id |-> 0]

\* the resolver as section 4.4 of the specification describes it: the pair of
\* identifiers of the first gazetteer match, (0, 0) when there is none
resolve_location(location_text) ==
    IF location_text = Alger
    THEN [exc |-> "none", commune_id |-> 1, willaya_id |-> 1]
    ELSE [exc |-> "none", commune_id |-> 0, willaya_id |-> 0]

\* what the call of line 425 gives under the lookup a specification names
LocationIds(lookup, location_text) ==
    IF lookup = "get_location_ids" THEN get_location_ids(location_text)
    ELSE resolve_location(location_text)

\* ------------------------------------------------- the try block, 393-461
\* lastrowid of the INSERT INTO properties: an identifier no other row has.
\* The auto-increment value is written <<link, n>>, the n-th row inserted
\* while `link` was the current item, which keeps it unique.
FreshPropertyId(link) ==
    LET rows == props \cup UNION {pending[q].props : q \in Procs}
    IN <<link, Cardinality({r \in rows : r.link = link}) + 1>>

Raise(e) == [exc |-> e, writes |-> NoWrites]

\* line 433 left out
images_not_checked(image_urls) == FALSE

\* if not image_urls: raise ValueError("No valid image URLs found."), line 433
no_valid_images(image_urls) == image_urls = {}

\* The outcome of lines 394-459 for the row `link`: the exception raised
\* ("none": the commit of line 459 was reached) and the rows written on the
\* connection by then.  `link` is recorded in the property row only to tell
\* which item a row came from; the table has no such column.
try_block(closed, o, link, property_id, lookup) ==
    LET title == TitleText
        price == ParsePrice(o.price_text)
        location_text == IF o.location = TimedOut THEN Unknown ELSE o.location
        description == IF o.description = TimedOut THEN title ELSE o.description
        phone_number == extract_phone_number(description)
        ids == LocationIds(lookup, location_text)
        image_urls == Range(o.srcs) \cap ScontentUrls
        property == [id |-> property_id, link |-> link, price |-> price,
                     telephone |-> phone_number, commune |-> ids.commune_id,
                     willaya |-> ids.willaya_id]
        media_values == {[model_id |-> property_id, file |-> u] : u \in image_urls}
    IN IF closed THEN Raise("ConnectionError")
       ELSE IF o.closed_at = 1 THEN Raise("TargetClosedError")
       ELSE IF o.goto = "timeout" THEN Raise("TimeoutError")
       ELSE IF o.goto = "error" THEN Raise("Error")
       ELSE IF o.closed_at = 2 THEN Raise("TargetClosedError")
       ELSE IF o.title = "timeout" THEN Raise("TimeoutError")
       ELSE IF o.closed_at = 3 THEN Raise("TargetClosedError")
       ELSE IF o.price_text = TimedOut THEN Raise("TimeoutError")
       ELSE IF price < 0 THEN Raise("ValueError")
       ELSE IF o.closed_at \in {4, 5} THEN Raise("TargetClosedError")
       ELSE IF ids.exc # "none" THEN Raise(ids.exc)
       ELSE IF o.closed_at = 6 THEN Raise("TargetClosedError")
       ELSE IF o.img_wait = "timeout" THEN Raise("TimeoutError")
       ELSE IF o.closed_at = 7 THEN Raise("TargetClosedError")
       ELSE IF no_valid_images(image_urls) THEN Raise("ValueError")
       ELSE IF o.failed \cap image_urls # {} THEN Raise("ConnectionError")
       ELSE IF o.db = "error"
            THEN [exc |-> "DatabaseError", writes |-> [props |-> {property}, media |-> {}]]
       ELSE [exc |-> "none", writes |-> [props |-> {property}, media |-> media_values]]

\* except (ValueError, ConnectionError, TimeoutError), line 463
controlled(e) == e \in {"ValueError", "ConnectionError", "TimeoutError"}

\* line 469 with a text no error message holds
mentions_other_text(e) == FALSE

\* "Target page" in str(e), line 469: the message of the error a surface call
\* raises on a closed page is "Target page, context or browser has been
\* closed" (the text main tests for at line 521); neither the NameError, nor
\* a navigation error, nor an error of the store mentions it
mentions_target_page(e) == e = "TargetClosedError"

\* a loop that stops at whatever fails
always_breaks(e) == TRUE

\* the break of line 469: taken in the except Exception clause only, which
\* the exceptions of line 463 never reach
breaks(e) == ~controlled(e) /\ mentions_target_page(e)

\* the except clause without db_conn.rollback()
no_rollback(writes) == writes

\* db_conn.rollback(): what the connection wrote and did not commit is gone
rollback(writes) == NoWrites

\* lines 389-469 for the current item: the try block and the except clause
\* taken; the finally clause is Finalize
TryItem(p, lookup) ==
    /\ pc[p] = "item"
    /\ \E o \in Observations(links[links_to_process[p][idx[p]]].fb_item_id) :
          LET link == links_to_process[p][idx[p]]
              r == try_block(page_closed[p], o, link, FreshPropertyId(link), lookup)
          IN /\ IF r.exc = "none"
                THEN /\ props' = props \cup r.writes.props
                     /\ media' = media \cup r.writes.media
                     /\ pending' = [pending EXCEPT ![p] = NoWrites]
                     /\ final_status' = [final_status EXCEPT ![p] = "completed"]
                     /\ stop' = stop
                ELSE /\ UNCHANGED <<props, media>>
                     /\ pending' = [pending EXCEPT ![p] = rollback(r.writes)]
                     /\ final_status' =
                            [final_status EXCEPT ![p] = initial_final_status]
                     /\ stop' = [stop EXCEPT ![p] = breaks(r.exc)]
             /\ raised' = [raised EXCEPT ![p] = r.exc]
             /\ page_closed' = [page_closed EXCEPT ![p] = @ \/ o.closed_at > 0]
             /\ page' = [page EXCEPT ![p] =
                           IF ~page_closed[p] /\ Yields(o)
                           THEN [price_text |-> o.price_text,
                                 description |-> IF o.description = TimedOut
                                                 THEN TitleText ELSE o.description,
                                 urls |-> Range(o.srcs) \cap ScontentUrls]
                           ELSE NoPage]
    /\ pc' = [pc EXCEPT ![p] = "finally"]
    /\ UNCHANGED <<links, collectVars, links_to_process, idx>>
    /\ UNCHANGED otherVars

\* the UPDATE of line 472 writing 'error' whatever final_status holds
set_status_error(table, id, status) ==
    [table EXCEPT ![id].status = "error", ![id].processed_at = 1]

\* UPDATE marketplace_links SET status = %s, processed_at = %s WHERE id = %s
set_status(table, id, status) ==
    [table EXCEPT ![id].status = status, ![id].processed_at = 1]

\* lines 470-475, then the break of line 469 or the next turn of the loop;
\* the commit of line 473 commits whatever the connection still holds.  When
\* the run ends its locals are gone: they are put back to their first values.
Finalize(p) ==
    LET link == links_to_process[p][idx[p]]
        last == stop[p] \/ idx[p] = Len(links_to_process[p])
    IN /\ pc[p] = "finally"
       /\ links' = set_status(links, link, final_status[p])
       /\ props' = props \cup pending[p].props
       /\ media' = media \cup pending[p].media
       /\ pending' = [pending EXCEPT ![p] = NoWrites]
       /\ pc' = [pc EXCEPT ![p] = IF last THEN "idle" ELSE "item"]
       /\ idx' = [idx EXCEPT ![p] = IF last THEN 0 ELSE @ + 1]
       /\ links_to_process' = [links_to_process EXCEPT ![p] = IF last THEN <<>> ELSE @]
       /\ final_status' = [final_status EXCEPT ![p] = initial_final_status]
       /\ stop' = [stop EXCEPT ![p] = FALSE]
       /\ raised' = [raised EXCEPT ![p] = "none"]
       /\ page_closed' = [page_closed EXCEPT ![p] = IF last THEN FALSE ELSE @]
       /\ page' = [page EXCEPT ![p] = NoPage]
       /\ UNCHANGED collectVars
       /\ UNCHANGED otherVars

\* the caller closes the browser window between two surface calls
ClosePage(p) ==
    /\ pc[p] = "item"
    /\ ~page_closed[p]
    /\ page_closed' = [page_closed EXCEPT ![p] = TRUE]
    /\ UNCHANGED <<links, props, media, collectVars, pc, links_to_process, idx,
                   final_status, stop, raised, pending, page>>
    /\ UNCHANGED otherVars

\* the process is killed: its connection goes, and with it its open
\* transaction and the locks it holds
Crash(p) ==
    /\ pc[p] \in {"selected", "item", "finally"}
    /\ pc' = [pc EXCEPT ![p] = "crashed"]
    /\ pending' = [pending EXCEPT ![p] = NoWrites]
    /\ page' = [page EXCEPT ![p] = NoPage]
    /\ links_to_process' = [links_to_process EXCEPT ![p] = <<>>]
    /\ idx' = [idx EXCEPT ![p] = 0]
    /\ final_status' = [final_status EXCEPT ![p] = initial_final_status]
    /\ stop' = [stop EXCEPT ![p] = FALSE]
    /\ raised' = [raised EXCEPT ![p] = "none"]
    /\ page_closed' = [page_closed EXCEPT ![p] = FALSE]
    /\ UNCHANGED <<links, props, media, collectVars>>
    /\ UNCHANGED otherVars

Collect ==
    \E d \in Discoverers :
        \/ \E href \in Hrefs : CollectLink(d, href)
        \/ CommitBatch(d)
        \/ RestartCollect(d)

Claim == \E p \in Procs : ClaimSelect(p) \/ ClaimUpdate(p)

Environment == \E p \in Procs : ClosePage(p) \/ Crash(p)

Closing == \E p \in Procs : ClosePage(p)

\* the program as it is
Next ==
    \/ Collect
    \/ Claim
    \/ \E p \in Procs : TryItem(p, "get_location_ids")
    \/ \E p \in Procs : Finalize(p)
    \/ Environment

Spec == Init /\ [][Next]_vars

\* the program with the location lookup of section 4.4 in place of the
\* undefined name, in runs no process of which is killed
NextResolved ==
    \/ Collect
    \/ Claim
    \/ \E p \in Procs : TryItem(p, "resolve_location")
    \/ \E p \in Procs : Finalize(p)
    \/ Closing

SpecResolved == Init /\ [][NextResolved]_vars

\* ------------------------------------- the loop of collect_links, 213-266
\* a loop that ends at a target count, as `while collected < target`
below_target(collected) == collected < TARGET_LINKS_TO_COLLECT

\* while True, line 213
loop_goes_on(collected) == TRUE

\* a surface whose calls go through on a closed page
surface_never_raises(closed) == "none"

\* what a call on the page raises: on a closed page the error whose message
\* is "Target page, context or browser has been closed"
surface_call(closed) == IF closed THEN "TargetClosedError" ELSE "none"

\* main, lines 520-524: what the run is reported to have ended with
main_report(e) == IF e = "TargetClosedError" THEN "graceful" ELSE "unexpected"

\* current_link_count == last_link_count and last_link_count > 0, line 220
stagnant(current, last) == current = last /\ last > 0

\* collect_links is left with `outcome`: its locals are gone (they are put
\* back to their first values) and main reports how the run ended
LeaveCollect(d, outcome) ==
    /\ collect_pc' = [collect_pc EXCEPT ![d] = "stopped"]
    /\ report' = [report EXCEPT ![d] = outcome]
    /\ seen_item_ids' = [seen_item_ids EXCEPT ![d] = {}]
    /\ new_links_in_batch' = [new_links_in_batch EXCEPT ![d] = 0]
    /\ collected_count_session' = [collected_count_session EXCEPT ![d] = 0]
    /\ current_link_count' = [current_link_count EXCEPT ![d] = 0]
    /\ last_link_count' = [last_link_count EXCEPT ![d] = 0]
    /\ consecutive_scrolls_with_no_new_links' =
           [consecutive_scrolls_with_no_new_links EXCEPT ![d] = 0]
    /\ pos' = [pos EXCEPT ![d] = 0]
    /\ cooldown' = [cooldown EXCEPT ![d] = FALSE]
    /\ no_growth_run' = [no_growth_run EXCEPT ![d] = 0]

\* the exception e leaves collect_links and reaches main's except clause
StopCollect(d, e) == LeaveCollect(d, main_report(e))

\* lines 213-234 of one turn of the loop: the elements are read (n of them;
\* the first listing is visible by line 197, and what the page renders later
\* is the page's business: the count may grow, stay or shrink),
\* the stagnation counter is updated, the cooldown is taken at 5, and the
\* for loop is set up.  no_growth_run counts, beside the code, the turns in a
\* row whose count was not larger than the one before, back to 0 at 5.
ScanLinks(d, n) ==
    LET e == surface_call(collect_page_closed[d])
        counted == IF stagnant(n, last_link_count[d])
                   THEN consecutive_scrolls_with_no_new_links[d] + 1
                   ELSE 0
        run == IF n > last_link_count[d] THEN 0 ELSE no_growth_run[d] + 1
    IN /\ collect_pc[d] = "scan"
       /\ IF ~loop_goes_on(collected_count_session[d])
          THEN LeaveCollect(d, "returned")
          ELSE IF e # "none"
          THEN StopCollect(d, e)
          ELSE /\ current_link_count' = [current_link_count EXCEPT ![d] = n]
               /\ consecutive_scrolls_with_no_new_links' =
                      [consecutive_scrolls_with_no_new_links EXCEPT ![d] =
                          IF counted >= STAGNATION_LIMIT THEN 0 ELSE counted]
               /\ cooldown' = [cooldown EXCEPT ![d] = counted >= STAGNATION_LIMIT]
               /\ no_growth_run' = [no_growth_run EXCEPT ![d] =
                                       IF run >= STAGNATION_LIMIT THEN 0 ELSE run]
               /\ last_link_count' = [last_link_count EXCEPT ![d] = n]
               /\ new_links_in_batch' = [new_links_in_batch EXCEPT ![d] = 0]
               /\ pos' = [pos EXCEPT ![d] = 1]
               /\ collect_pc' = [collect_pc EXCEPT ![d] = "loop"]
               /\ UNCHANGED <<report, seen_item_ids, collected_count_session>>
       /\ UNCHANGED <<links, props, media, collect_page_closed, processVars,
                      parseVars>>

\* lines 235-256 for the element at pos[d], which shows the item pos[d]:
\* whatever is raised is caught at line 255 and the loop takes the next
\* element.  answer "detached": get_attribute fails on an open page;
\* "db_error": the INSERT of line 248 fails, after line 244 has recorded the
\* identifier as seen.
VisitLink(d, href, answer) ==
    LET item == item_id_of(href)
        e == surface_call(collect_page_closed[d])
    IN /\ collect_pc[d] = "loop"
       /\ pos[d] <= current_link_count[d]
       /\ item = pos[d]
       /\ IF e # "none" \/ answer = "detached" \/ item \in seen_item_ids[d]
          THEN UNCHANGED <<links, seen_item_ids, new_links_in_batch,
                           collected_count_session>>
          ELSE IF answer = "db_error"
          THEN /\ seen_item_ids' = [seen_item_ids EXCEPT ![d] = @ \cup {item}]
               /\ UNCHANGED <<links, new_links_in_batch, collected_count_session>>
          ELSE submit_link(d, href)
       /\ pos' = [pos EXCEPT ![d] = @ + 1]
       /\ UNCHANGED <<props, media, processVars, parseVars, collect_pc,
                      current_link_count, last_link_count,
                      consecutive_scrolls_with_no_new_links, cooldown,
                      no_growth_run, collect_page_closed, report>>

\* lines 258-266 once the for loop is through: the commit of what this
\* turn inserted, then the scroll, a surface call
Scroll(d) ==
    LET e == surface_call(collect_page_closed[d])
    IN /\ collect_pc[d] = "loop"
       /\ pos[d] > current_link_count[d]
       /\ links' = IF new_links_in_batch[d] > 0 THEN commit_links(links, d)
                   ELSE links
       /\ IF e # "none" THEN StopCollect(d, e)
          ELSE /\ collect_pc' = [collect_pc EXCEPT ![d] = "scan"]
               /\ UNCHANGED <<report, collectVars, current_link_count,
                              last_link_count,
                              consecutive_scrolls_with_no_new_links, pos,
                              cooldown, no_growth_run>>
       /\ UNCHANGED <<props, media, processVars, parseVars, collect_page_closed>>

\* the caller closes the browser window of the discovery run
CloseCollectPage(d) ==
    /\ collect_pc[d] # "stopped"
    /\ ~collect_page_closed[d]
    /\ collect_page_closed' = [collect_page_closed EXCEPT ![d] = TRUE]
    /\ UNCHANGED <<links, props, media, collectVars, processVars, parseVars,
                   collect_pc, current_link_count, last_link_count,
                   consecutive_scrolls_with_no_new_links, pos, cooldown,
                   no_growth_run, report>>

\* one discovery run, turn by turn
NextCollect ==
    \E d \in Discoverers :
        \/ \E n \in 1 .. MaxItems : ScanLinks(d, n)
        \/ \E href \in Hrefs : \E answer \in {"ok", "detached", "db_error"} :
              VisitLink(d, href, answer)
        \/ Scroll(d)
        \/ CloseCollectPage(d)

SpecCollect == Init /\ [][NextCollect]_vars

\* the discovery process is killed: its connection goes, and with it the
\* rows it inserted and did not commit
KillCollect(d) ==
    /\ collect_pc[d] # "stopped"
    /\ links' = SelectSeq(links, LAMBDA r : r.owner # d)
    /\ LeaveCollect(d, "killed")
    /\ UNCHANGED <<props, media, processVars, parseVars, collect_page_closed>>

\* one discovery run that may be killed at any point
NextCollectKilled ==
    \/ NextCollect
    \/ \E d \in Discoverers : KillCollect(d)

SpecCollectKilled == Init /\ [][NextCollectKilled]_vars

\* ------------------------------------ runs that go on until they end
\* the discovery run has ended
Discovered == \A d \in Discoverers : collect_pc[d] = "stopped"

\* a discovery run, then process runs on what it left, no process killed
NextCancel ==
    \/ NextCollect
    \/ Discovered /\ Claim
    \/ \E p \in Procs : TryItem(p, "get_location_ids")
    \/ \E p \in Procs : Finalize(p)
    \/ Closing

\* a started run is a running process: the step it is at is taken, sooner or
\* later.  Starting a run and closing a page are up to the caller.
Progress ==
    /\ \A d \in Discoverers :
          /\ WF_vars(\E n \in 1 .. MaxItems : ScanLinks(d, n))
          /\ WF_vars(\E href \in Hrefs : \E answer \in {"ok", "detached", "db_error"} :
                        VisitLink(d, href, answer))
          /\ WF_vars(Scroll(d))
    /\ \A p \in Procs :
          /\ WF_vars(ClaimUpdate(p))
          /\ WF_vars(TryItem(p, "get_location_ids"))
          /\ WF_vars(Finalize(p))

SpecCancel == Init /\ [][NextCancel]_vars /\ Progress

\* a new `process` invocation once the discovery run has ended
RunAgain(p) == Discovered /\ ClaimSelect(p)

\* a discovery run, then process runs one after another and side by side,
\* no process killed and no page closed under a run
NextRepeated ==
    \/ NextCollect
    \/ \E p \in Procs : RunAgain(p)
    \/ \E p \in Procs : ClaimUpdate(p)
    \/ \E p \in Procs : TryItem(p, "get_location_ids")
    \/ \E p \in Procs : Finalize(p)

\* the runs are repeated: every instance is started again and again, whenever
\* it can be started often enough, and a started run takes its steps
Repeated == Progress /\ \A p \in Procs : SF_vars(RunAgain(p))

SpecRepeated == Init /\ [][NextRepeated]_vars /\ Repeated

\* ------------------------------------------------ lines 409-411 alone
\* the characters a price text is made of here: digits, a thousands
\* separator, a blank and a letter
PriceAlphabet == {"0", "1", "5", ",", " ", "D"}

RECURSIVE TextsUpTo(_, _)
\* the texts of 1 to n characters over an alphabet
TextsUpTo(alphabet, n) ==
    IF n = 0 THEN {}
    ELSE LET shorter == TextsUpTo(alphabet, n - 1)
         IN {<<c>> : c \in alphabet}
            \cup shorter
            \cup {Append(t, c) : t \in shorter, c \in alphabet}

PriceTexts == TextsUpTo(PriceAlphabet, MaxPriceLen)

InitPrice ==
    /\ InitStore /\ InitScroll
    /\ price_input \in PriceTexts
    /\ parsed_price = Unparsed
    /\ phone_input = NoText
    /\ extracted_phone = Unextracted

\* lines 410-411 on the text line 409 read
ParsePriceText ==
    /\ price_input # NoText
    /\ parsed_price = Unparsed
    /\ parsed_price' = ParsePrice(price_input)
    /\ UNCHANGED <<links, props, media, collectVars, processVars, scrollVars,
                   price_input, phone_input, extracted_phone>>

NextPrice == ParsePriceText

SpecPrice == InitPrice /\ [][NextPrice]_vars

\* ------------------------------------------- extract_phone_number alone
\* what stands between two groups of a number as people write it: nothing,
\* or one character
Separators == {<<>>, <<" ">>, <<".">>, <<",">>, <<"-">>, <<"_">>, <<"\"">>}

\* the second digit of the prefix: a mobile prefix, keyed in or as a keycap
\* emoji, or a prefix that is none
SecondDigits == {<<"5">>, <<"7", VS16, KEYCAP>>, <<"8">>}

\* "Tel: 0<d><s1>12<s2>34<s3>56<s4>78"
PhoneText(d, s1, s2, s3, s4) ==
    <<"T", "e", "l", ":", " ", "0">> \o d \o s1 \o <<"1", "2">> \o s2
        \o <<"3", "4">> \o s3 \o <<"5", "6">> \o s4 \o <<"7", "8">>

PhoneTexts ==
    {PhoneText(d, s1, s2, s3, s4) :
        d \in SecondDigits, s1 \in Separators, s2 \in Separators,
        s3 \in Separators, s4 \in Separators}

InitPhone ==
    /\ InitStore /\ InitScroll
    /\ price_input = NoText
    /\ parsed_price = Unparsed
    /\ phone_input \in PhoneTexts
    /\ extracted_phone = Unextracted

\* phone_number = extract_phone_number(description), line 424
ExtractPhone ==
    /\ phone_input # NoText
    /\ extracted_phone = Unextracted
    /\ extracted_phone' = extract_phone_number(phone_input)
    /\ UNCHANGED <<links, props, media, collectVars, processVars, scrollVars,
                   price_input, parsed_price, phone_input>>

NextPhone == ExtractPhone

SpecPhone == InitPhone /\ [][NextPhone]_vars

\* ----------------------------------------------------------------- claims
\* the rows an instance has claimed and not yet finalized: the rows it holds
\* locked between lines 377 and 386, then the rest of its batch
Held(p) ==
    CASE pc[p] = "selected" -> Range(links_to_process[p])
      [] pc[p] = "item" -> {links_to_process[p][k] : k \in idx[p] .. Len(links_to_process[p])}
      [] pc[p] = "finally" -> {links_to_process[p][k] : k \in idx[p] .. Len(links_to_process[p])}
      [] OTHER -> {}

\* the row of the current item
Current(p) == links_to_process[p][idx[p]]

\* the step of the finally clause of instance p
FinalizeStep(p) == pc[p] = "finally" /\ pc'[p] \in {"item", "idle"}

PropsOf(table, link) == {r \in table : r.link = link}
MediaOf(table, link) == {m \in table : m.model_id[1] = link}

\* C1: no row is held, claimed and not yet finalized, by two instances at
\* the same time: the sets of rows two instances hold are disjoint.
C1_ClaimsDisjoint ==
    \A p \in Procs : \A q \in Procs \ {p} : Held(p) \cap Held(q) = {}

\* one instance is inside claimBatch while the other works through its batch
C1_Witness ==
    \E p \in Procs : \E q \in Procs \ {p} :
        /\ pc[p] = "selected" /\ Held(p) # {}
        /\ pc[q] \in {"item", "finally"} /\ Held(q) # {}

\* C2: at most one property row is ever committed for a link row, and every
\* link row whose status is completed has exactly one.
C2_ExactlyOnce ==
    \A k \in 1 .. Len(links) :
        /\ Cardinality(PropsOf(props, k)) <= 1
        /\ links[k].status = "completed" => Cardinality(PropsOf(props, k)) = 1

\* a link completed on a retry (it is not the first of the table, and a link
\* before it is in error) while another instance is at work
C2_Witness ==
    \E k \in 1 .. Len(links) : \E j \in 1 .. Len(links) :
        /\ links[k].status = "completed" /\ Cardinality(PropsOf(props, k)) = 1
        /\ links[j].status = "error"
        /\ \E p \in Procs : pc[p] = "finally"

\* C3: when a run ends without being killed, none of the rows it claimed is
\* left in processing: at its last finalize step no row of its batch is
\* still to be finalized.
C3_RunLeavesNoneProcessing ==
    [][\A p \in Procs :
          (pc[p] = "finally" /\ pc'[p] = "idle") =>
              \A k \in idx[p] + 1 .. Len(links_to_process[p]) :
                  links'[links_to_process[p][k]].status # "processing"]_vars

\* C4: a link row whose status is completed keeps that status.
C4_CompletedIsFinal ==
    [][\A k \in 1 .. Len(links) :
          links[k].status = "completed" =>
              k <= Len(links') /\ links'[k].status = "completed"]_vars

\* a completed row while an instance is selecting its batch
C4_Witness ==
    /\ \E k \in 1 .. Len(links) : links[k].status = "completed"
    /\ \E p \in Procs : pc[p] = "selected"

LegalTransitions ==
    {<<"new", "processing">>, <<"error", "processing">>,
     <<"processing", "completed">>, <<"processing", "error">>}

\* C5: every change of a link's status is new->processing, error->processing,
\* processing->completed or processing->error; a row enters processing only
\* in the claim of an instance whose batch holds it; the finally clause is
\* applied only to a row that is processing.
C5_LegalTransitions ==
    [][/\ \A k \in 1 .. Len(links) :
            (k <= Len(links') /\ links'[k].status # links[k].status) =>
                /\ <<links[k].status, links'[k].status>> \in LegalTransitions
                /\ links'[k].status = "processing" =>
                       \E p \in Procs : /\ pc[p] = "selected" /\ pc'[p] = "item"
                                        /\ k \in Range(links_to_process[p])
       /\ \A p \in Procs :
            FinalizeStep(p) => links[Current(p)].status = "processing"]_vars

\* a row that re-entered processing after an error, beside a row in error
\* and a row not yet claimed
C5_Witness ==
    /\ \E k \in 1 .. Len(links) :
          links[k].status = "processing" /\ links[k].processed_at = 1
    /\ \E k \in 1 .. Len(links) : links[k].status = "error"
    /\ \E k \in 1 .. Len(links) : links[k].status = "new"

\* C6: submitting an identifier that already has a row leaves the table as
\* it is (one row for the identifier, its status, url and timestamp
\* unchanged), and no identifier ever has two rows.
C6_InsertIsIdempotent ==
    /\ [](\A item \in Items : Cardinality(RowsOf(item)) <= 1)
    /\ [][\A d \in Discoverers :
             \A item \in seen_item_ids'[d] \ seen_item_ids[d] :
                 RowsOf(item) # {} => links' = links]_vars

\* every item was submitted again, the last under its other URL, by a run
\* that inserted nothing, with rows in processing and in error
C6_Witness ==
    \E d \in Discoverers :
        /\ seen_item_ids[d] = Items
        /\ collected_count_session[d] = 0
        /\ Len(links) = MaxItems
        /\ links[MaxItems].url = full_url_of([item |-> MaxItems, query |-> ""])
        /\ links[MaxItems].status = "processing"
        /\ links[1].status = "error"

\* the integer the digit characters of a text spell
DigitsOf(text) == IntOf(SelectSeq(text, LAMBDA c : c \in AsciiDigits))

\* C7: for an item whose page yields a title, a price text and an asset URL,
\* with every download succeeding and the surface open, the run commits one
\* property row (its price the digits of the price text, its phone number
\* the one extracted from the description) with one media row per distinct
\* image URL, and finalizes the link as completed.
C7_GoodPageCompletes ==
    [][\A p \in Procs :
          (FinalizeStep(p) /\ page[p] # NoPage) =>
              /\ links'[Current(p)].status = "completed"
              /\ \E r \in props' :
                    /\ PropsOf(props', Current(p)) = {r}
                    /\ r.telephone = extract_phone_number(page[p].description)
                    /\ DigitsOf(page[p].price_text) > 0 =>
                           r.price = DigitsOf(page[p].price_text)
                    /\ Cardinality(MediaOf(media', Current(p))) =
                           Cardinality(page[p].urls)]_vars

\* C8: when the processing of an item ends in a failure, no property row and
\* no media row of the item is durable once the finally clause has
\* committed, and the link is finalized as error.
C8_FailureLeavesNothing ==
    [][\A p \in Procs :
          (FinalizeStep(p) /\ raised[p] # "none") =>
              /\ links'[Current(p)].status = "error"
              /\ PropsOf(props', Current(p)) = {}
              /\ MediaOf(media', Current(p)) = {}]_vars

\* an insert failed after the property row was written: the except clause
\* has run and the finally clause is next
C8_Witness ==
    \E p \in Procs : pc[p] = "finally" /\ raised[p] = "DatabaseError"

\* C9: every committed property row has a media row, every committed media
\* row belongs to a committed property row, and an item without asset URL
\* has written nothing when it is rejected.
C9_PropertyWithMedia ==
    /\ \A r \in props : \E m \in media : m.model_id = r.id
    /\ \A m \in media : \E r \in props : r.id = m.model_id
    /\ \A p \in Procs : raised[p] = "ValueError" => pending[p] = NoWrites

\* a property committed with its two media rows, and an item being rejected
C9_Witness ==
    /\ \E r \in props : Cardinality({m \in media : m.model_id = r.id}) = 2
    /\ \E p \in Procs : raised[p] = "ValueError"

\* C10: when an item fails because the page is found closed at the check of
\* line 394, the run attempts no later item of its batch: the finally clause
\* of that item ends the run.
C10_ClosedPageStopsBatch ==
    [][\A p \in Procs :
          (FinalizeStep(p) /\ raised[p] = "ConnectionError" /\ page_closed[p]) =>
              pc'[p] = "idle"]_vars

\* C11: when an item fails with one of the exceptions of line 463 and is
\* not the last of its batch, the finally clause finalizes it as error and
\* the run goes on with the next row of the batch, the batch unchanged.
C11_ControlledSkipsOneItem ==
    [][\A p \in Procs :
          (/\ FinalizeStep(p)
           /\ controlled(raised[p])
           /\ idx[p] < Len(links_to_process[p])) =>
              /\ links'[Current(p)].status = "error"
              /\ pc'[p] = "item"
              /\ idx'[p] = idx[p] + 1
              /\ links_to_process'[p] = links_to_process[p]
              /\ links'[links_to_process[p][idx'[p]]].status = "processing"]_vars

\* the first row of a batch of two failed on a download (line 438), the page
\* open, and its finally clause is next
C11_Witness ==
    \E p \in Procs :
        /\ pc[p] = "finally" /\ raised[p] = "ConnectionError" /\ ~page_closed[p]
        /\ idx[p] = 1 /\ Len(links_to_process[p]) = 2

\* C13: the parsed price is the integer the digit characters of the price
\* text spell, and 1 when the text has no digit or its digits spell 0: it is
\* never 0.
C13_PriceNeverZero ==
    parsed_price # Unparsed =>
        /\ parsed_price # 0
        /\ parsed_price = IF DigitsOf(price_input) = 0 THEN 1
                          ELSE DigitsOf(price_input)

\* the separators the claim lists, and no separator
ListedSeparators == {<<>>, <<" ">>, <<".">>, <<",">>, <<"-">>, <<"_">>}

\* C14: for a text holding a mobile prefix (05, 06, 07) and four groups of
\* two digits, each pair of neighbours apart by nothing or by one of space,
\* dot, comma, hyphen, underscore (the same set at each of the four
\* positions), the result is the ten digits; for a text without such a
\* number it is none.
C14_SameSeparatorsEverywhere ==
    extracted_phone # Unextracted =>
        \A d \in SecondDigits :
            \A s1 \in Separators, s2 \in Separators, s3 \in Separators,
               s4 \in Separators :
                phone_input = PhoneText(d, s1, s2, s3, s4) =>
                    extracted_phone =
                        IF d # <<"8">> /\ {s1, s2, s3, s4} \subseteq ListedSeparators
                        THEN <<"0", d[1], "1", "2", "3", "4", "5", "6", "7", "8">>
                        ELSE NoText

\* C15: when an item fails with an error that is not one of line 463 and
\* that tells the page is gone, the finally clause commits status error and
\* the processed timestamp for the item, and with that step the run ends:
\* no later row of the batch is started.
C15_DeadSurfaceStopsAfterFinalize ==
    [][\A p \in Procs :
          (FinalizeStep(p) /\ raised[p] = "TargetClosedError") =>
              /\ links'[Current(p)].status = "error"
              /\ links'[Current(p)].processed_at = 1
              /\ links'[Current(p)].owner = Committed
              /\ pc'[p] = "idle"
              /\ links_to_process'[p] = <<>>]_vars

\* the page died under the first row of a batch of two, whose finally
\* clause is next
C15_Witness ==
    \E p \in Procs :
        /\ pc[p] = "finally" /\ raised[p] = "TargetClosedError" /\ stop[p]
        /\ idx[p] = 1 /\ Len(links_to_process[p]) = 2
        /\ links[Current(p)].status = "processing"

\* the committed rows whose status is new or error
EligibleIds(table) ==
    {k \in 1 .. Len(table) :
        table[k].owner = Committed /\ table[k].status \in {"new", "error"}}

Min(a, b) == IF a <= b THEN a ELSE b

\* C16: the selection of a claim returns the min(PROCESS_LIMIT, number of
\* eligible rows) rows of smallest id among the rows that are new or error
\* at that time, in ascending order, and writes nothing; the update of the
\* claim puts exactly these rows in processing; and a run whose selection
\* finds no eligible row claims nothing and ends with no row changed.
C16_ClaimsSmallestEligible ==
    [][\A p \in Procs :
          /\ (pc[p] \in {"idle", "crashed"} /\ pc'[p] = "selected") =>
                LET batch == Range(links_to_process'[p])
                    eligible == EligibleIds(links)
                IN /\ batch \subseteq eligible
                   /\ Cardinality(batch) = Min(PROCESS_LIMIT, Cardinality(eligible))
                   /\ Len(links_to_process'[p]) = Cardinality(batch)
                   /\ \A k \in batch : \A j \in eligible \ batch : k < j
                   /\ \A i \in 1 .. Len(links_to_process'[p]) - 1 :
                         links_to_process'[p][i] < links_to_process'[p][i + 1]
                   /\ links' = links
          /\ (pc[p] = "selected" /\ pc'[p] = "item") =>
                /\ Len(links') = Len(links)
                /\ \A k \in 1 .. Len(links) :
                      IF k \in Range(links_to_process[p])
                      THEN /\ links[k].status \in {"new", "error"}
                           /\ links'[k].status = "processing"
                           /\ links'[k].owner = Committed
                      ELSE links'[k] = links[k]
          /\ (pc[p] \in {"idle", "crashed"} /\ EligibleIds(links) = {}) =>
                pc'[p] # "selected"
          /\ (pc[p] = "crashed" /\ pc'[p] = "idle") =>
                (EligibleIds(links) = {} /\ links' = links)]_vars

\* a claim of PROCESS_LIMIT rows has committed: it took a row that was in
\* error before and left an eligible row of larger id behind
C16_Witness ==
    \E p \in Procs :
        /\ pc[p] = "item" /\ idx[p] = 1
        /\ Len(links_to_process[p]) = PROCESS_LIMIT
        /\ \A k \in Range(links_to_process[p]) : links[k].status = "processing"
        /\ \E k \in Range(links_to_process[p]) : links[k].processed_at = 1
        /\ \E j \in EligibleIds(links) : \A k \in Range(links_to_process[p]) : k < j

\* C17: within a run the rows of the batch are in ascending id order and are
\* taken one at a time in that order: while an item is the current one
\* every later row of the batch is still in processing, and the run moves
\* to the next row only in the step that finalizes the current one.
C17_AscendingOneAtATime ==
    /\ [](\A p \in Procs :
            pc[p] \in {"item", "finally"} =>
                /\ idx[p] \in 1 .. Len(links_to_process[p])
                /\ \A i \in 1 .. Len(links_to_process[p]) - 1 :
                      links_to_process[p][i] < links_to_process[p][i + 1]
                /\ \A k \in Range(links_to_process[p]) :
                      k > Current(p) => links[k].status = "processing")
    /\ [][\A p \in Procs :
            (pc[p] \in {"item", "finally"} /\ pc'[p] \in {"item", "finally"}
                /\ idx'[p] # idx[p]) =>
                /\ FinalizeStep(p)
                /\ idx'[p] = idx[p] + 1
                /\ Current(p) < links_to_process'[p][idx'[p]]
                /\ links'[Current(p)].status \in {"completed", "error"}
                /\ links'[Current(p)].processed_at = 1]_vars

\* the second row of a batch is the current item, the first finalized
C17_Witness ==
    \E p \in Procs :
        /\ pc[p] = "item" /\ idx[p] = 2
        /\ links_to_process[p][1] < links_to_process[p][2]
        /\ links[links_to_process[p][1]].status = "error"
        /\ links[links_to_process[p][1]].processed_at = 1
        /\ links[links_to_process[p][2]].status = "processing"

\* C18: when an instance is killed after its selection and before the
\* update of its claim is committed, no row is changed: each row it had
\* selected still has the status new or error, no instance holds it locked,
\* and it is among the rows a later selection draws from.
C18_CrashBeforeUpdateLeavesRows ==
    [][\A p \in Procs :
          (pc[p] = "selected" /\ pc'[p] = "crashed") =>
              /\ links' = links
              /\ \A k \in Range(links_to_process[p]) :
                    /\ links'[k].status \in {"new", "error"}
                    /\ links'[k].owner = Committed
                    /\ \A q \in Procs :
                          pc'[q] = "selected" => k \notin Range(links_to_process'[q])
                    /\ k \in EligibleIds(links')
                    /\ Eligible(links'[k])]_vars

\* an instance was killed between its selection and its update (no row was
\* ever put in processing), and the other instance has selected since
C18_Witness ==
    \E p \in Procs : \E q \in Procs \ {p} :
        /\ pc[p] = "crashed"
        /\ pc[q] = "selected"
        /\ \A k \in 1 .. Len(links) :
              links[k].status = "new" /\ links[k].processed_at = 0

\* the step of lines 217-234 of a turn of the loop
ScanStep(d) == collect_pc[d] = "scan" /\ collect_pc'[d] = "loop"

\* C19: the cooldown is taken in a turn exactly when it is the 5th turn in
\* a row whose count of rendered references is not larger than at the turn
\* before; the stagnation counter is 0 after a cooldown and after a turn
\* that shows growth.
C19_CooldownAtFiveStagnantTurns ==
    [][\A d \in Discoverers :
          ScanStep(d) =>
              /\ cooldown'[d] <=>
                    /\ current_link_count'[d] <= last_link_count[d]
                    /\ no_growth_run[d] + 1 >= STAGNATION_LIMIT
              /\ cooldown'[d] => consecutive_scrolls_with_no_new_links'[d] = 0
              /\ current_link_count'[d] > last_link_count[d] =>
                    consecutive_scrolls_with_no_new_links'[d] = 0]_vars

\* C20: the loop of collect_links is left only on a closed page: whatever
\* the number of links collected, of stagnant turns and of failed links, a
\* run whose page is open goes on.
C20_LoopEndsOnlyOnClosedPage ==
    [][\A d \in Discoverers :
          (collect_pc[d] # "stopped" /\ collect_pc'[d] = "stopped") =>
              collect_page_closed[d]]_vars

\* a run that has reached the target of line 28, has had the insert of a
\* link fail and has just taken a cooldown goes on, its page open
C20_Witness ==
    \E d \in Discoverers :
        /\ collect_pc[d] = "loop" /\ ~collect_page_closed[d]
        /\ cooldown[d]
        /\ collected_count_session[d] >= TARGET_LINKS_TO_COLLECT
        /\ seen_item_ids[d] = Items
        /\ Len(links) < MaxItems

AddedBy(d) == {k \in Len(links) + 1 .. Len(links') : links'[k].owner = d}

\* the step starts a new run of d: the locals of lines 207-210 are set anew
RunStarts(d) == seen_item_ids[d] # {} /\ seen_item_ids'[d] = {}

\* C21: the session total of a discovery run is the number of rows the run
\* itself inserted: it is 0 when the run starts, and every step of the run
\* adds to it exactly the number of rows the step inserted; a row is inserted
\* only for an identifier not yet seen in the run, and an identifier whose
\* row exists already is recorded as seen, with no row added and nothing
\* counted.  The rows not yet committed are among those counted in the
\* current batch, and the total never exceeds the rows of the identifiers
\* seen.
C21_TotalCountsOwnInsertions ==
    /\ [](\A d \in Discoverers :
            /\ Cardinality({k \in 1 .. Len(links) : links[k].owner = d}) <=
                   new_links_in_batch[d]
            /\ new_links_in_batch[d] <= collected_count_session[d]
            /\ collected_count_session[d] <=
                   Cardinality({k \in 1 .. Len(links) :
                                   links[k].fb_item_id \in seen_item_ids[d]}))
    /\ [][\A d \in Discoverers :
            IF RunStarts(d) THEN collected_count_session'[d] = 0
            ELSE /\ collected_count_session'[d] =
                        collected_count_session[d] + Cardinality(AddedBy(d))
                 /\ \A k \in AddedBy(d) :
                       /\ links'[k].fb_item_id \notin seen_item_ids[d]
                       /\ links'[k].fb_item_id \in seen_item_ids'[d]
                 /\ \A item \in seen_item_ids'[d] \ seen_item_ids[d] :
                       RowsOf(item) # {} =>
                           /\ links' = links
                           /\ collected_count_session'[d] =
                                  collected_count_session[d]]_vars

\* a run has submitted every item: the rows of two were there from an earlier
\* run and are not counted, the third it inserted itself and has not yet
\* committed
C21_Witness ==
    \E d \in Discoverers :
        /\ seen_item_ids[d] = Items
        /\ collected_count_session[d] = 1
        /\ Len(links) = MaxItems
        /\ links[MaxItems].owner = d
        /\ links[1].owner = Committed /\ links[2].owner = Committed

\* the rows d has inserted and not committed
Uncommitted(table, d) == {k \in 1 .. Len(table) : table[k].owner = d}

\* the step of lines 258-265 of a turn of the loop: the for loop is through
ScrollStep(d) ==
    /\ collect_pc[d] = "loop" /\ collect_pc'[d] \in {"scan", "stopped"}
    /\ report'[d] # "killed"

\* the step in which the discovery process is killed
KillStep(d) == report[d] # "killed" /\ report'[d] = "killed"

\* C22: every insertion counted in the session total is committed by the
\* time the feed is next scrolled: the step that ends a turn commits what the
\* turn inserted before it scrolls, so that between two turns no row of the
\* run is uncommitted and every counted row is in the store; the rows not
\* committed are insertions of the turn in progress, and a run that is
\* cancelled or killed loses no more than these.
C22_CommitBeforeScroll ==
    /\ [](\A d \in Discoverers :
            /\ collect_pc[d] # "loop" => Uncommitted(links, d) = {}
            /\ collect_pc[d] = "scan" => Len(links) = collected_count_session[d]
            /\ Cardinality(Uncommitted(links, d)) <= new_links_in_batch[d]
            /\ collect_pc[d] = "loop" =>
                   Len(links) - Cardinality(Uncommitted(links, d)) >=
                       collected_count_session[d] - new_links_in_batch[d])
    /\ [][\A d \in Discoverers :
            /\ ScrollStep(d) =>
                  /\ Len(links') = Len(links)
                  /\ Uncommitted(links', d) = {}
            /\ KillStep(d) =>
                  /\ links' = SelectSeq(links, LAMBDA r : r.owner = Committed)
                  /\ Len(links) - Len(links') <= new_links_in_batch[d]
                  /\ Len(links') >=
                         collected_count_session[d] - new_links_in_batch[d]]_vars

\* the second turn of a run is in progress: the row of the first turn is
\* committed, the row this turn inserted is not
C22_Witness ==
    \E d \in Discoverers :
        /\ collect_pc[d] = "loop"
        /\ collected_count_session[d] = 2 /\ new_links_in_batch[d] = 1
        /\ Len(links) = 2
        /\ links[1].owner = Committed /\ links[2].owner = d

\* C23: a committed property row exists for a link row only while the link
\* is processing or completed: no link whose status is new or error has one.
\* The commit of the property row and the commit that finalizes the link are
\* two steps: the first leaves the link table as it is, the link processing.
C23_PropertyOnlyWhenProcessingOrCompleted ==
    /\ [](\A r \in props :
            /\ r.link \in 1 .. Len(links)
            /\ links[r.link].status \in {"processing", "completed"})
    /\ [](\A k \in 1 .. Len(links) :
            links[k].status \in {"new", "error"} => PropsOf(props, k) = {})
    /\ [][\A r \in props' \ props :
            /\ links' = links
            /\ links[r.link].status = "processing"
            /\ \E p \in Procs : pc[p] = "item" /\ pc'[p] = "finally"
                                /\ Current(p) = r.link]_vars

\* between the two commits: the property row of the current item is
\* committed and its link still processing, beside a link in error and a link
\* not yet claimed
C23_Witness ==
    \E p \in Procs :
        /\ pc[p] = "finally" /\ final_status[p] = "completed"
        /\ PropsOf(props, Current(p)) # {}
        /\ links[Current(p)].status = "processing"
        /\ \E k \in 1 .. Len(links) : links[k].status = "error"
        /\ \E k \in 1 .. Len(links) : links[k].status = "new"

\* the item has a committed row whose status is new
IsNew(item) ==
    \E k \in RowsOf(item) : links[k].owner = Committed /\ links[k].status = "new"

\* the row of the item has been claimed: it has left the status new
WasClaimed(item) == \E k \in RowsOf(item) : links[k].status # "new"

\* C24: under process runs repeated without end, none of them killed, every
\* row whose status is new is eventually claimed by the claim of some run,
\* also when rows of smaller id fail at every attempt and are made eligible
\* again as error.
C24_NewIsEventuallyClaimed ==
    \A item \in Items : (Discovered /\ IsNew(item)) ~> WasClaimed(item)

====
